---- MODULE Spec2Model ----
(***************************************************************************)
(* Model of the two-hand gesture pipeline of                               *)
(* src/app/translator/page.tsx (component HandTracker): geometric          *)
(* primitives, the single-hand classifier with its wave and stillness      *)
(* trackers, the two-hand combiner, the lock/debounce step and speak.      *)
(*                                                                         *)
(* Numbers.  Coordinates and lengths are fixed-point, one unit = 0.0001 of *)
(* the normalised image (so 1.0 = 10000 and the epsilon 0.0001 = 1).       *)
(* Times are integer milliseconds.  A decimal coefficient c of the code is *)
(* written as the fraction it denotes (0.16 = 4/25) and both sides of      *)
(* the comparison are multiplied by the denominator.  Math.sqrt is the     *)
(* integer square root.                                                    *)
(*                                                                         *)
(* UI-only React state (detectedText, isSpeaking, toasts, the countdown,   *)
(* the device list) is not part of the model.                              *)
(***************************************************************************)
EXTENDS Integers, Sequences, FiniteSets, TLC

(***************************************************************************)
(* Bounds of the model (not program constants).                            *)
(***************************************************************************)
\* Date.now() - performance.now(): the wall clock is far ahead of the page clock.
TimeOrigin == 100000
\* Frames are processed until the page clock reaches MaxNow.
MaxNow == 10000
\* The same for the runs with two hands in view.
MaxHandsNow == 4000

(***************************************************************************)
(* Program constants.                                                      *)
(***************************************************************************)
LOCK_FRAMES == 10
\* predict: cooldownOk = nowMs - lastSpokenTime.current >= 2500
COOLDOWN_MS == 2500
\* speak: if (now - lastSpokenTime.current < 3000) return
SPEAK_COOLDOWN_MS == 3000
\* calibration window: elapsed >= 3000
CALIBRATION_MS == 3000
\* window.setTimeout(() => setLockedGesture(null), 900)
LOCK_UI_MS == 900
\* Math.max(handSize, 0.0001)
EPSILON == 1

NoGesture == "null"

GestureId ==
  {"hello", "yes", "good_okay", "no", "wait", "help", "assistance",
   "thank_you", "please", "goodbye", "water", "restroom", "stop"}

(***************************************************************************)
(* Geometric primitives.                                                   *)
(***************************************************************************)
Max2(a, b) == IF a >= b THEN a ELSE b

Min2(a, b) == IF a <= b THEN a ELSE b

Abs(a) == IF a >= 0 THEN a ELSE 0 - a

RECURSIVE SqrtIter(_, _, _)
SqrtIter(n, lo, hi) ==
  IF lo >= hi THEN lo
  ELSE LET mid == (lo + hi + 1) \div 2
       IN  IF mid * mid <= n THEN SqrtIter(n, mid, hi) ELSE SqrtIter(n, lo, mid - 1)

\* Math.sqrt on fixed-point values: the largest r with r*r <= n.
Sqrt(n) == SqrtIter(n, 0, 20000)

\* landmarks[i] of the code (0-based); a landmark is undefined past the end.
Has(landmarks, i) == i + 1 <= Len(landmarks)

At(landmarks, i) == landmarks[i + 1]

dist2(a, b) ==
  LET dx == a.x - b.x
      dy == a.y - b.y
  IN  dx * dx + dy * dy

dist(a, b) == Sqrt(dist2(a, b))

getHandSize(landmarks) ==
  IF ~Has(landmarks, 0) \/ ~Has(landmarks, 9) THEN 0
  ELSE dist(At(landmarks, 0), At(landmarks, 9))

isFingerExtended(landmarks, mcp, pip, tip, handSize) ==
  IF ~Has(landmarks, 0) \/ ~Has(landmarks, mcp) \/ ~Has(landmarks, pip) \/ ~Has(landmarks, tip)
  THEN FALSE
  ELSE LET wrist == At(landmarks, 0)
           m == At(landmarks, mcp)
           p == At(landmarks, pip)
           t == At(landmarks, tip)
           hs2 == Max2(handSize, EPSILON) * Max2(handSize, EPSILON)
       \* 0.16 = 4/25, 0.08 = 2/25
       IN  /\ 25 * dist2(t, wrist) > 25 * dist2(p, wrist) + 4 * hs2
           /\ 25 * dist2(p, wrist) > 25 * dist2(m, wrist) + 2 * hs2

\* isFingerCurled with the comparison turned round.
isFingerCurledInverted(landmarks, mcp, pip, tip, handSize) ==
  IF ~Has(landmarks, 0) \/ ~Has(landmarks, mcp) \/ ~Has(landmarks, pip) \/ ~Has(landmarks, tip)
  THEN FALSE
  ELSE LET wrist == At(landmarks, 0)
           p == At(landmarks, pip)
           t == At(landmarks, tip)
           hs2 == Max2(handSize, EPSILON) * Max2(handSize, EPSILON)
       IN  125 * dist2(t, wrist) + 16 * hs2 > 125 * dist2(p, wrist)

\* isFingerCurled with the tip and the PIP measured from the knuckle.
isFingerCurledFromKnuckle(landmarks, mcp, pip, tip, handSize) ==
  IF ~Has(landmarks, 0) \/ ~Has(landmarks, mcp) \/ ~Has(landmarks, pip) \/ ~Has(landmarks, tip)
  THEN FALSE
  ELSE LET m == At(landmarks, mcp)
           p == At(landmarks, pip)
           t == At(landmarks, tip)
           hs2 == Max2(handSize, EPSILON) * Max2(handSize, EPSILON)
       IN  125 * dist2(t, m) + 16 * hs2 < 125 * dist2(p, m)

isFingerCurled(landmarks, mcp, pip, tip, handSize) ==
  IF ~Has(landmarks, 0) \/ ~Has(landmarks, mcp) \/ ~Has(landmarks, pip) \/ ~Has(landmarks, tip)
  THEN FALSE
  ELSE LET wrist == At(landmarks, 0)
           p == At(landmarks, pip)
           t == At(landmarks, tip)
           hs2 == Max2(handSize, EPSILON) * Max2(handSize, EPSILON)
       \* 0.128 = 16/125
       IN  125 * dist2(t, wrist) + 16 * hs2 < 125 * dist2(p, wrist)

isThumbExtended(landmarks, handSize) ==
  IF ~Has(landmarks, 0) \/ ~Has(landmarks, 4) \/ ~Has(landmarks, 3) \/ ~Has(landmarks, 2)
  THEN FALSE
  ELSE LET wrist == At(landmarks, 0)
           tip == At(landmarks, 4)
           ip == At(landmarks, 3)
           mcp == At(landmarks, 2)
           hs2 == Max2(handSize, EPSILON) * Max2(handSize, EPSILON)
       \* 0.128 = 16/125, 0.064 = 8/125
       IN  /\ 125 * dist2(tip, wrist) > 125 * dist2(ip, wrist) + 16 * hs2
           /\ 125 * dist2(ip, wrist) > 125 * dist2(mcp, wrist) + 8 * hs2

(***************************************************************************)
(* Tracker state of the classifier (waveRef, stillRef).  A nullable number *)
(* is a sequence: <<>> is null, <<v>> is the number v.                     *)
(***************************************************************************)
WaveInit == [lastX |-> <<>>, lastDir |-> 0, flips |-> 0, startMs |-> 0, minX |-> 10000, maxX |-> 0]

StillInit == [lastX |-> <<>>, lastY |-> <<>>, stillMs |-> 0, lastMs |-> 0]

\* The wave window is cleared in place (lastX is kept).
WaveWindowReset(s, t) ==
  [s EXCEPT !.startMs = t, !.flips = 0, !.lastDir = 0, !.minX = 10000, !.maxX = 0]

\* WaveStep without the reset of the window when goodbye is returned.
WaveStepKeepsWindow(s, wristX, hs, t) ==
  LET dx == IF s.lastX = <<>> THEN 0 ELSE wristX - s.lastX[1]
      dir == IF 25 * dx > 3 * hs THEN 1 ELSE IF 25 * dx < 0 - 3 * hs THEN -1 ELSE 0
      s1 == [lastX |-> <<wristX>>,
             lastDir |-> IF dir # 0 THEN dir ELSE s.lastDir,
             flips |-> IF dir # 0 /\ s.lastDir # 0 /\ dir # s.lastDir THEN s.flips + 1 ELSE s.flips,
             startMs |-> IF s.startMs = 0 THEN t ELSE s.startMs,
             minX |-> Min2(s.minX, wristX),
             maxX |-> Max2(s.maxX, wristX)]
      s2 == IF t - s1.startMs > 1700 THEN WaveWindowReset(s1, t) ELSE s1
      amplitude == s2.maxX - s2.minX
      fire == t - s2.startMs > 450 /\ s2.flips >= 3 /\ 25 * amplitude > 14 * hs
  IN  [fire |-> fire, wave |-> s2]

\* The palmFour branch of classifyGesture: the tracker after the frame and
\* whether goodbye is returned.
WaveStep(s, wristX, hs, t) ==
  LET dx == IF s.lastX = <<>> THEN 0 ELSE wristX - s.lastX[1]
      \* dirThreshold = 0.12 * hs, 0.12 = 3/25
      dir == IF 25 * dx > 3 * hs THEN 1 ELSE IF 25 * dx < 0 - 3 * hs THEN -1 ELSE 0
      s1 == [lastX |-> <<wristX>>,
             lastDir |-> IF dir # 0 THEN dir ELSE s.lastDir,
             flips |-> IF dir # 0 /\ s.lastDir # 0 /\ dir # s.lastDir THEN s.flips + 1 ELSE s.flips,
             startMs |-> IF s.startMs = 0 THEN t ELSE s.startMs,
             minX |-> Min2(s.minX, wristX),
             maxX |-> Max2(s.maxX, wristX)]
      s2 == IF t - s1.startMs > 1700 THEN WaveWindowReset(s1, t) ELSE s1
      amplitude == s2.maxX - s2.minX
      \* amplitude > 0.56 * hs, 0.56 = 14/25
      fire == t - s2.startMs > 450 /\ s2.flips >= 3 /\ 25 * amplitude > 14 * hs
  IN  [fire |-> fire, wave |-> IF fire THEN WaveWindowReset(s2, t) ELSE s2]

\* StillStep with please returned after 650 ms in any part of the frame.
StillStepAnyZone(st, wrist, t) ==
  LET lastMs == IF st.lastMs = 0 THEN t ELSE st.lastMs
      dt == t - lastMs
      dx == IF st.lastX = <<>> THEN 0 ELSE Abs(wrist.x - st.lastX[1])
      dy == IF st.lastY = <<>> THEN 0 ELSE Abs(wrist.y - st.lastY[1])
      isStill == dx < 120 /\ dy < 120
      st1 == [lastX |-> <<wrist.x>>, lastY |-> <<wrist.y>>,
              stillMs |-> IF isStill THEN st.stillMs + dt ELSE 0,
              lastMs |-> t]
      inStopZone == wrist.x > 2500 /\ wrist.x < 7500 /\ wrist.y < 4500
  IN  IF inStopZone /\ st1.stillMs > 650
      THEN [g |-> "stop", still |-> [st1 EXCEPT !.stillMs = 0]]
      ELSE IF st1.stillMs > 650
      THEN [g |-> "please", still |-> [st1 EXCEPT !.stillMs = 0]]
      ELSE [g |-> NoGesture, still |-> st1]

\* StillStep with the stillness kept when stop or please is returned.
StillStepKeepsStillness(st, wrist, t) ==
  LET lastMs == IF st.lastMs = 0 THEN t ELSE st.lastMs
      dt == t - lastMs
      dx == IF st.lastX = <<>> THEN 0 ELSE Abs(wrist.x - st.lastX[1])
      dy == IF st.lastY = <<>> THEN 0 ELSE Abs(wrist.y - st.lastY[1])
      isStill == dx < 120 /\ dy < 120
      st1 == [lastX |-> <<wrist.x>>, lastY |-> <<wrist.y>>,
              stillMs |-> IF isStill THEN st.stillMs + dt ELSE 0,
              lastMs |-> t]
      inStopZone == wrist.x > 2500 /\ wrist.x < 7500 /\ wrist.y < 4500
      inChestZone == wrist.x > 3000 /\ wrist.x < 7000 /\ wrist.y > 4500
  IN  IF inStopZone /\ st1.stillMs > 650
      THEN [g |-> "stop", still |-> st1]
      ELSE IF (inChestZone /\ st1.stillMs > 650) \/ st1.stillMs > 1100
      THEN [g |-> "please", still |-> st1]
      ELSE [g |-> NoGesture, still |-> st1]

\* The openHand || fourFingers branch: the tracker after the frame and the
\* gesture returned by the branch (NoGesture when it falls through).
StillStep(st, wrist, t) ==
  LET lastMs == IF st.lastMs = 0 THEN t ELSE st.lastMs
      dt == t - lastMs
      dx == IF st.lastX = <<>> THEN 0 ELSE Abs(wrist.x - st.lastX[1])
      dy == IF st.lastY = <<>> THEN 0 ELSE Abs(wrist.y - st.lastY[1])
      isStill == dx < 120 /\ dy < 120
      st1 == [lastX |-> <<wrist.x>>, lastY |-> <<wrist.y>>,
              stillMs |-> IF isStill THEN st.stillMs + dt ELSE 0,
              lastMs |-> t]
      inStopZone == wrist.x > 2500 /\ wrist.x < 7500 /\ wrist.y < 4500
      inChestZone == wrist.x > 3000 /\ wrist.x < 7000 /\ wrist.y > 4500
  IN  IF inStopZone /\ st1.stillMs > 650
      THEN [g |-> "stop", still |-> [st1 EXCEPT !.stillMs = 0]]
      ELSE IF (inChestZone /\ st1.stillMs > 650) \/ st1.stillMs > 1100
      THEN [g |-> "please", still |-> [st1 EXCEPT !.stillMs = 0]]
      ELSE [g |-> NoGesture, still |-> st1]

\* StaticRules with the fist rule ahead of the thumb-only rule.
StaticRulesFistFirst(thumb, index, middle, ring, pinky, middleCurled, ringCurled, fist, openHand, fourFingers, waterShape, down) ==
  IF waterShape THEN "water"
  ELSE IF thumb /\ index /\ pinky /\ (middleCurled \/ ~middle) /\ (ringCurled \/ ~ring)
  THEN "assistance"
  ELSE IF fourFingers THEN "thank_you"
  ELSE IF fist THEN "yes"
  ELSE IF thumb /\ ~index /\ ~middle /\ ~ring /\ ~pinky
  THEN (IF down THEN "no" ELSE "good_okay")
  ELSE IF ~thumb /\ index /\ middle /\ ~ring /\ ~pinky THEN "help"
  ELSE IF ~thumb /\ index /\ ~middle /\ ~ring /\ ~pinky THEN "wait"
  ELSE IF openHand THEN "hello"
  ELSE NoGesture

\* The static rules of classifyGesture, in the order of the code.
StaticRules(thumb, index, middle, ring, pinky, middleCurled, ringCurled, fist, openHand, fourFingers, waterShape, down) ==
  IF waterShape THEN "water"
  ELSE IF thumb /\ index /\ pinky /\ (middleCurled \/ ~middle) /\ (ringCurled \/ ~ring)
  THEN "assistance"
  ELSE IF fourFingers THEN "thank_you"
  ELSE IF thumb /\ ~index /\ ~middle /\ ~ring /\ ~pinky
  THEN (IF down THEN "no" ELSE "good_okay")
  ELSE IF ~thumb /\ index /\ middle /\ ~ring /\ ~pinky THEN "help"
  ELSE IF ~thumb /\ index /\ ~middle /\ ~ring /\ ~pinky THEN "wait"
  ELSE IF fist THEN "yes"
  ELSE IF openHand THEN "hello"
  ELSE NoGesture

\* The returns of classifyGesture in order: goodbye from the wave branch
\* (the stillness tracker is then left untouched), stop or please from the
\* held-pose branch, else the static rule.  wv is the outcome of the wave
\* branch, held is openHand || fourFingers.
StillThenStatic(wv, sl, static) ==
  IF sl.g # NoGesture THEN [g |-> sl.g, wave |-> wv.wave, still |-> sl.still]
  ELSE [g |-> static, wave |-> wv.wave, still |-> sl.still]

WaveThenStill(wrist, t, wv, st, held, static) ==
  IF wv.fire THEN [g |-> "goodbye", wave |-> wv.wave, still |-> st]
  ELSE StillThenStatic(wv,
         IF held THEN StillStep(st, wrist, t) ELSE [g |-> NoGesture, still |-> StillInit],
         static)

\* The body of classifyGesture once the shape booleans are computed: wave
\* detection, held-pose detection, then the static rules.
ClassifyShape(wrist, w, st, hs, t, thumb, index, middle, ring, pinky, middleCurled, ringCurled, fist, thumbSpreadOk, down) ==
  LET palmFour == index /\ middle /\ ring /\ pinky
      openHand == thumbSpreadOk /\ thumb /\ palmFour
      fourFingers == ~thumb /\ palmFour
      waterShape == ~thumb /\ index /\ middle /\ ring /\ ~pinky
  IN  WaveThenStill(wrist, t,
        IF palmFour THEN WaveStep(w, wrist.x, hs, t) ELSE [fire |-> FALSE, wave |-> WaveInit],
        st, openHand \/ fourFingers,
        StaticRules(thumb, index, middle, ring, pinky, middleCurled, ringCurled,
                    fist, openHand, fourFingers, waterShape, down))

\* classifyGesture(landmarks): the gesture returned and the two trackers as
\* the call leaves them.  w and st are waveRef.current and stillRef.current
\* before the call, baseline is calibrationRef.current.baselineHandSize and
\* t is performance.now().
ClassifyScaled(landmarks, w, st, hs, t) ==
  LET wrist == At(landmarks, 0)
      thumbTip == At(landmarks, 4)
      thumbMcp == At(landmarks, 2)
      index == isFingerExtended(landmarks, 5, 6, 8, hs)
      middle == isFingerExtended(landmarks, 9, 10, 12, hs)
      ring == isFingerExtended(landmarks, 13, 14, 16, hs)
      pinky == isFingerExtended(landmarks, 17, 18, 20, hs)
      indexCurled == isFingerCurled(landmarks, 5, 6, 8, hs)
      middleCurled == isFingerCurled(landmarks, 9, 10, 12, hs)
      ringCurled == isFingerCurled(landmarks, 13, 14, 16, hs)
      pinkyCurled == isFingerCurled(landmarks, 17, 18, 20, hs)
  IN  ClassifyShape(wrist, w, st, hs, t,
        isThumbExtended(landmarks, hs), index, middle, ring, pinky,
        middleCurled, ringCurled,
        \* fist
        /\ indexCurled /\ middleCurled /\ ringCurled /\ pinkyCurled
        /\ ~index /\ ~middle /\ ~ring /\ ~pinky,
        \* thumbSpreadOk: dist(thumbTip, indexMcp) > 0.48 * hs, 0.48 = 12/25
        IF Has(landmarks, 5) THEN 25 * dist(thumbTip, At(landmarks, 5)) > 12 * hs ELSE TRUE,
        \* down: thumbTip.y > max(thumbMcp.y, wrist.y) + 0.24 * hs, 0.24 = 6/25
        25 * thumbTip.y > 25 * Max2(thumbMcp.y, wrist.y) + 6 * hs)

\* ScaleRef without the floor at 0.0001.
ScaleRefNoFloor(handSize, baseline) == Max2(handSize, baseline)

\* hs = Math.max(handSize, baselineHandSize || 0, 0.0001)
ScaleRef(handSize, baseline) == Max2(Max2(handSize, baseline), EPSILON)

classifyGesture(landmarks, w, st, baseline, t) ==
  IF ~Has(landmarks, 0) \/ ~Has(landmarks, 4) \/ ~Has(landmarks, 2)
  THEN [g |-> NoGesture, wave |-> w, still |-> st]
  ELSE ClassifyScaled(landmarks, w, st, ScaleRef(getHandSize(landmarks), baseline), t)

(***************************************************************************)
(* State of the HandTracker component.                                     *)
(***************************************************************************)
VARIABLES
  now,                   \* performance.now(), ms
  isCameraActive,        \* useState
  isCalibrating,         \* useState
  calibrationRef,        \* useRef: baselineHandSize, brightness, isReady, startedAt, samples, sums
  waveRef,               \* useRef: the wave tracker
  stillRef,              \* useRef: the stillness tracker
  lockStateRef,          \* useRef: candidate, streak
  lastSpokenTime,        \* useRef: Date.now() of the last speech that was not dropped
  lastSpokenGestureRef,  \* useRef: gesture of the last lock
  lockedGestureRef,      \* useRef
  lockedGesture,         \* useState: the lock indicator
  lockUiTimeoutRef,      \* <<>> or <<deadline>> of the pending setTimeout
  frame,                 \* what the latest predict call computed and emitted
  staleRaf,              \* the scheduled predict is of a render older than setIsCalibrating(false)
  lastLock,              \* history: the latest onPhrase call
  prevLock,              \* history: the onPhrase call before it
  runLen,                \* history: trailing frames with the latest candidate, counted to LOCK_FRAMES
  feed,                  \* scripted feed: the frames still to be delivered
  fed,                   \* scripted feed: the frames delivered
  fedAt,                 \* scripted feed: Date.now() of every LOCK_FRAMES-th delivered frame
  lockLog,               \* scripted feed: every onPhrase call as [g, frame]
  solo,                  \* slot 0 classified by trackers of its own
  view,                  \* history: what the latest frames showed and what predict derived from it
  table,                 \* one hand put through classifyGesture on fresh trackers
  legacy                 \* components/HandTracker.tsx: its refs and what its latest predict emitted

prog == <<now, isCameraActive, isCalibrating, calibrationRef, waveRef, stillRef, lockStateRef,
          lastSpokenTime, lastSpokenGestureRef, lockedGestureRef, lockedGesture,
          lockUiTimeoutRef, frame, staleRaf>>

hist == <<lastLock, prevLock, runLen>>

script == <<feed, fed, fedAt, lockLog>>

vars == <<prog, hist, script, solo, view, table, legacy>>

CalibrationInit ==
  [baselineHandSize |-> 0, brightness |-> 0, isReady |-> FALSE, startedAt |-> 0,
   samples |-> 0, sumHandSize |-> 0, sumBrightness |-> 0]

NoFrame == [g0 |-> NoGesture, g1 |-> NoGesture, candidate |-> NoGesture,
            phrase |-> NoGesture, spoken |-> FALSE]

NoLock == [g |-> NoGesture, t |-> 0]

SoloInit == [wave |-> WaveInit, still |-> StillInit, g0 |-> NoGesture,
             lo |-> 10000, hi |-> 0, hs |-> 0]

\* lm0, lm1: the detector's result of the latest frame; hs0, hsPair: the
\* scale reference classifyGesture used for slot 0 and the combiner used
\* (<<>> when not computed); goodbyeAt: the frames on which goodbye was
\* returned; swings, heading: reversals of the wrist of slot 0 since the
\* latest goodbye and its latest direction; handSum, handFrames: sum of the
\* hand sizes over the calibration frames with a hand, and their number.
ViewInit ==
  [lm0 |-> <<>>, lm1 |-> <<>>, hs0 |-> <<>>, hsPair |-> <<>>,
   goodbyeAt |-> <<>>, swings |-> 0, swingsAtGoodbye |-> <<>>, heading |-> 0,
   handSum |-> 0, handFrames |-> 0, breakAt |-> 0, prevG0 |-> NoGesture, gap |-> 0]

NoTable == [done |-> FALSE]

\* components/HandTracker.tsx after mount: recentGesturesRef, lastSpokenGestureRef
\* and lastSpokenTime, with what the detector and classifyGesture gave on the
\* latest frame (seen) and the onPhrase and speak calls of that frame.
LegacyInit ==
  [recentGesturesRef |-> <<>>, lastSpokenGestureRef |-> NoGesture, lastSpokenTime |-> 0,
   seen |-> "none", emitted |-> NoGesture, spoken |-> FALSE]

InitProg ==
  /\ now = 0
  /\ isCameraActive = FALSE
  /\ isCalibrating = FALSE
  /\ calibrationRef = CalibrationInit
  /\ waveRef = WaveInit
  /\ stillRef = StillInit
  /\ lockStateRef = [candidate |-> NoGesture, streak |-> 0]
  /\ lastSpokenTime = 0
  /\ lastSpokenGestureRef = NoGesture
  /\ lockedGestureRef = NoGesture
  /\ lockedGesture = NoGesture
  /\ lockUiTimeoutRef = <<>>
  /\ frame = NoFrame
  /\ staleRaf = FALSE
  /\ lastLock = NoLock
  /\ prevLock = NoLock
  /\ runLen = 0
  /\ fed = <<>>
  /\ fedAt = <<>>
  /\ lockLog = <<>>
  /\ solo = SoloInit
  /\ view = ViewInit
  /\ table = NoTable
  /\ legacy = LegacyInit

Init == InitProg /\ feed = <<>>

(***************************************************************************)
(* predict, step by step.                                                  *)
(***************************************************************************)
DateNow(t) == t + TimeOrigin

\* Calibration sampling and finalize; bright is the frame's mean luma in percent.
CalibrationSample(c, lm0, lm1, bright, t) ==
  LET elapsed == t - c.startedAt
      hs0 == IF lm0 # <<>> THEN getHandSize(lm0) ELSE 0
      hs1 == IF lm1 # <<>> THEN getHandSize(lm1) ELSE 0
      hs == Max2(hs0, hs1)
      c1 == [c EXCEPT !.sumBrightness = @ + bright,
                      !.sumHandSize = IF hs > 0 THEN @ + hs ELSE @,
                      !.samples = @ + 1]
      samples == Max2(1, c1.samples)
  IN  IF elapsed >= CALIBRATION_MS
      THEN [c1 EXCEPT !.baselineHandSize = c1.sumHandSize \div samples,
                      !.brightness = c1.sumBrightness \div samples,
                      !.isReady = TRUE]
      ELSE c1

\* Combine with the two-hand please taken when either hand shows a palm.
CombineEitherPalm(lm0, lm1, g0, g1, baseline) ==
  IF Has(lm0, 0) /\ Has(lm1, 0)
  THEN LET hs == ScaleRef(Max2(getHandSize(lm0), getHandSize(lm1)), baseline)
           wristsClose == 20 * dist(At(lm0, 0), At(lm1, 0)) < 11 * hs
           lowHands == At(lm0, 0).y > 5500 /\ At(lm1, 0).y > 5500
       IN  IF wristsClose /\ lowHands /\ g0 = "yes" /\ g1 = "yes" THEN "restroom"
           ELSE IF /\ wristsClose
                   /\ \/ g0 \in {"hello", "thank_you", "please"}
                      \/ g1 \in {"hello", "thank_you", "please"}
           THEN "please"
           ELSE NoGesture
  ELSE NoGesture

\* The two-hand interactions: the combined gesture or NoGesture.
Combine(lm0, lm1, g0, g1, baseline) ==
  IF Has(lm0, 0) /\ Has(lm1, 0)
  THEN LET hs == ScaleRef(Max2(getHandSize(lm0), getHandSize(lm1)), baseline)
           \* 0.55 = 11/20
           wristsClose == 20 * dist(At(lm0, 0), At(lm1, 0)) < 11 * hs
           lowHands == At(lm0, 0).y > 5500 /\ At(lm1, 0).y > 5500
       IN  IF wristsClose /\ lowHands /\ g0 = "yes" /\ g1 = "yes" THEN "restroom"
           ELSE IF /\ wristsClose
                   /\ g0 \in {"hello", "thank_you", "please"}
                   /\ g1 \in {"hello", "thank_you", "please"}
           THEN "please"
           ELSE NoGesture
  ELSE NoGesture

\* Candidate with the first hand's gesture taken before the combined one.
CandidateFirstHand(combined, g0, g1) ==
  IF g0 # NoGesture THEN g0 ELSE IF combined # NoGesture THEN combined ELSE g1

\* combined ?? g0 ?? g1
Candidate(combined, g0, g1) ==
  IF combined # NoGesture THEN combined ELSE IF g0 # NoGesture THEN g0 ELSE g1

\* StreakStep with the streak carried over a frame without a candidate.
StreakStepKeepsOnNull(lock, candidate) ==
  IF candidate = NoGesture THEN lock
  ELSE IF candidate = lock.candidate THEN [lock EXCEPT !.streak = @ + 1]
  ELSE [candidate |-> candidate, streak |-> 1]

\* StreakStep with the streak carried over a change of candidate.
StreakStepKeepsOnChange(lock, candidate) ==
  IF candidate # NoGesture
  THEN [candidate |-> candidate, streak |-> lock.streak + 1]
  ELSE [candidate |-> candidate, streak |-> 0]

\* StreakStep with a new candidate starting its streak at 0.
StreakStepFromZero(lock, candidate) ==
  IF candidate # NoGesture /\ candidate = lock.candidate
  THEN [lock EXCEPT !.streak = @ + 1]
  ELSE [candidate |-> candidate, streak |-> 0]

\* The streak update of lockStateRef.
StreakStep(lock, candidate) ==
  IF candidate # NoGesture /\ candidate = lock.candidate
  THEN [lock EXCEPT !.streak = @ + 1]
  ELSE [candidate |-> candidate, streak |-> IF candidate # NoGesture THEN 1 ELSE 0]

\* LockFires with the streak compared by > instead of >=.
LockFiresLate(lock, candidate, spokenTime, spokenGesture, t) ==
  /\ candidate # NoGesture
  /\ lock.streak > LOCK_FRAMES
  /\ DateNow(t) - spokenTime >= COOLDOWN_MS
  /\ spokenGesture # candidate

\* LockFires without the comparison with the last locked gesture.
LockFiresRepeats(lock, candidate, spokenTime, spokenGesture, t) ==
  /\ candidate # NoGesture
  /\ lock.streak >= LOCK_FRAMES
  /\ DateNow(t) - spokenTime >= COOLDOWN_MS

\* LockFires with the cooldown of speak in place of its own.
LockFiresSpeakCooldown(lock, candidate, spokenTime, spokenGesture, t) ==
  /\ candidate # NoGesture
  /\ lock.streak >= LOCK_FRAMES
  /\ DateNow(t) - spokenTime >= SPEAK_COOLDOWN_MS
  /\ spokenGesture # candidate

\* The lock condition of predict.
LockFires(lock, candidate, spokenTime, spokenGesture, t) ==
  /\ candidate # NoGesture
  /\ lock.streak >= LOCK_FRAMES
  /\ DateNow(t) - spokenTime >= COOLDOWN_MS
  /\ spokenGesture # candidate

\* speak(text): whether the phrase passes the cooldown of speak.
SpeakPasses(spokenTime, t) == ~(DateNow(t) - spokenTime < SPEAK_COOLDOWN_MS)

(***************************************************************************)
(* The actions of the component.                                           *)
(***************************************************************************)
\* startCamera, the path on which getUserMedia and video.play succeed.
StartCamera ==
  /\ ~isCameraActive
  /\ isCameraActive' = TRUE
  /\ calibrationRef' = [CalibrationInit EXCEPT !.startedAt = now]
  /\ isCalibrating' = TRUE
  /\ UNCHANGED <<now, waveRef, stillRef, lockStateRef, lastSpokenTime, lastSpokenGestureRef,
                 lockedGestureRef, lockedGesture, lockUiTimeoutRef, frame, staleRaf>>
  /\ UNCHANGED <<hist, script, solo, view, table, legacy>>

StopCamera ==
  /\ isCameraActive
  /\ isCameraActive' = FALSE
  /\ staleRaf' = FALSE
  /\ UNCHANGED <<now, isCalibrating, calibrationRef, waveRef, stillRef, lockStateRef,
                 lastSpokenTime, lastSpokenGestureRef, lockedGestureRef, lockedGesture,
                 lockUiTimeoutRef, frame>>
  /\ UNCHANGED <<hist, script, solo, view, table, legacy>>

\* The callback of window.setTimeout(() => setLockedGesture(null), 900).
LockUiTimeout ==
  /\ lockUiTimeoutRef # <<>>
  /\ now >= lockUiTimeoutRef[1]
  /\ lockedGesture' = NoGesture
  /\ lockUiTimeoutRef' = <<>>
  /\ UNCHANGED <<now, isCameraActive, isCalibrating, calibrationRef, waveRef, stillRef,
                 lockStateRef, lastSpokenTime, lastSpokenGestureRef, lockedGestureRef, frame,
                 staleRaf>>
  /\ UNCHANGED <<hist, script, solo, view, table, legacy>>

\* The lock step of predict and the speak call, for the frame's candidate;
\* r is the outcome of the second classifyGesture call.
FrameLock(t, cal, r, g0, g1, candidate, lock, fires) ==
  /\ isCameraActive
  /\ now' = t
  /\ calibrationRef' = cal
  /\ isCalibrating' = (isCalibrating /\ ~cal.isReady)
  /\ waveRef' = r.wave
  /\ stillRef' = r.still
  /\ lockStateRef' = lock
  /\ lastSpokenGestureRef' = IF fires THEN candidate ELSE lastSpokenGestureRef
  /\ lockedGestureRef' = IF fires THEN candidate ELSE lockedGestureRef
  /\ lockedGesture' = IF fires THEN candidate ELSE lockedGesture
  /\ lockUiTimeoutRef' = IF fires THEN <<t + LOCK_UI_MS>> ELSE lockUiTimeoutRef
  /\ lastSpokenTime' = IF fires /\ SpeakPasses(lastSpokenTime, t)
                       THEN DateNow(t) ELSE lastSpokenTime
  /\ frame' = [g0 |-> g0, g1 |-> g1, candidate |-> candidate,
               phrase |-> IF fires THEN candidate ELSE NoGesture,
               spoken |-> fires /\ SpeakPasses(lastSpokenTime, t)]
  /\ UNCHANGED isCameraActive

FrameStreak(t, cal, r, g0, g1, candidate, lock) ==
  FrameLock(t, cal, r, g0, g1, candidate, lock,
            LockFires(lock, candidate, lastSpokenTime, lastSpokenGestureRef, t))

FrameCandidate(t, cal, r, g0, g1, candidate) ==
  FrameStreak(t, cal, r, g0, g1, candidate, StreakStep(lockStateRef, candidate))

FrameCombine(lm0, lm1, t, cal, r0, r1) ==
  FrameCandidate(t, cal, r1, r0.g, r1.g,
                 Candidate(Combine(lm0, lm1, r0.g, r1.g, cal.baselineHandSize), r0.g, r1.g))

\* g1: the second classifyGesture call works on the trackers the first left.
FrameSecond(lm0, lm1, t, cal, r0) ==
  FrameCombine(lm0, lm1, t, cal, r0,
    IF lm1 # <<>>
    THEN classifyGesture(lm1, r0.wave, r0.still, cal.baselineHandSize, t)
    ELSE [g |-> NoGesture, wave |-> r0.wave, still |-> r0.still])

FrameFirst(lm0, lm1, t, cal) ==
  FrameSecond(lm0, lm1, t, cal,
    IF lm0 # <<>>
    THEN classifyGesture(lm0, waveRef, stillRef, cal.baselineHandSize, t)
    ELSE [g |-> NoGesture, wave |-> waveRef, still |-> stillRef])

\* One predict call, dt ms after the previous step, on the detector's result
\* lm0, lm1 (<<>> for a slot without a hand) and the frame's luma bright.
\* One run of predict by the callback of the latest render.  The run that
\* finalizes the calibration has called setIsCalibrating(false) and then
\* scheduled itself again: until the effect is re-run the scheduled callback
\* is the one that still sees isCalibrating = true.
Frame(lm0, lm1, bright, dt) ==
  /\ FrameFirst(lm0, lm1, now + dt,
       IF isCalibrating THEN CalibrationSample(calibrationRef, lm0, lm1, bright, now + dt)
       ELSE calibrationRef)
  /\ staleRaf' = (isCalibrating /\ calibrationRef'.isReady)

\* One run of predict by the callback scheduled before setIsCalibrating(false)
\* took effect: the animation frame comes before the effect's cleanup has
\* cancelled it.  Its closure sees isCalibrating = true, and it schedules
\* itself again.
StaleFrame(lm0, lm1, bright, dt) ==
  /\ staleRaf
  /\ ~isCalibrating
  /\ FrameFirst(lm0, lm1, now + dt,
       CalibrationSample(calibrationRef, lm0, lm1, bright, now + dt))
  /\ staleRaf' = TRUE

\* drawCanvas(drawLm, Boolean(lockedGestureRef.current)): the skeleton of a
\* hand in view is drawn green when isLocked, blue otherwise.
DrawnLocked == lockedGestureRef # NoGesture

(***************************************************************************)
(* History of the run, recorded beside the program.                        *)
(***************************************************************************)
ObserveLocks ==
  /\ runLen' = IF frame'.candidate = frame.candidate /\ runLen > 0
               THEN Min2(runLen + 1, LOCK_FRAMES) ELSE 1
  /\ lastLock' = IF frame'.phrase # NoGesture
                 THEN [g |-> frame'.phrase, t |-> DateNow(now')] ELSE lastLock
  /\ prevLock' = IF frame'.phrase # NoGesture THEN lastLock ELSE prevLock

\* Slot 0 classified again by trackers no other slot touches, and the range
\* of the wrist x of slot 0.
SoloStep(lm0, r) ==
  solo' = [wave |-> r.wave, still |-> r.still, g0 |-> r.g,
           lo |-> Min2(solo.lo, At(lm0, 0).x), hi |-> Max2(solo.hi, At(lm0, 0).x),
           hs |-> Max2(Max2(getHandSize(lm0), calibrationRef'.baselineHandSize), EPSILON)]

ObserveSolo(lm0) ==
  IF lm0 = <<>> THEN solo' = [solo EXCEPT !.g0 = NoGesture]
  ELSE SoloStep(lm0, classifyGesture(lm0, solo.wave, solo.still,
                                     calibrationRef'.baselineHandSize, now'))

(***************************************************************************)
(* Detector results fed to predict: 21 landmarks of an upright hand of     *)
(* size 1000 (wrist to middle MCP) with the wrist at (wx, wy).  A finger   *)
(* is "ext" (straight), "curl" (tip folded back to the palm) or "mid" (tip *)
(* at the PIP joint: neither extended nor curled).                         *)
(***************************************************************************)
Pt(px, py) == [x |-> px, y |-> py]

FingerMcp == <<Pt(-300, -950), Pt(0, -1000), Pt(300, -950), Pt(550, -850)>>

Finger(wx, wy, k, state) ==
  LET m == FingerMcp[k]
      tipY == IF state = "ext" THEN -900 ELSE IF state = "curl" THEN 100 ELSE -400
      dipY == IF state = "ext" THEN -650 ELSE -300
  IN  << Pt(wx + m.x, wy + m.y), Pt(wx + m.x, wy + m.y - 400),
         Pt(wx + m.x, wy + m.y + dipY), Pt(wx + m.x, wy + m.y + tipY) >>

Thumb(wx, wy, out) ==
  << Pt(wx - 300, wy - 200), Pt(wx - 550, wy - 450), Pt(wx - 750, wy - 650),
     IF out THEN Pt(wx - 900, wy - 850) ELSE Pt(wx - 300, wy - 500) >>

Hand(shape, wx, wy) ==
  <<Pt(wx, wy)>> \o Thumb(wx, wy, shape.thumb)
    \o Finger(wx, wy, 1, shape.fingers[1]) \o Finger(wx, wy, 2, shape.fingers[2])
    \o Finger(wx, wy, 3, shape.fingers[3]) \o Finger(wx, wy, 4, shape.fingers[4])

FistShape == [thumb |-> FALSE, fingers |-> <<"curl", "curl", "curl", "curl">>]

VeeShape == [thumb |-> FALSE, fingers |-> <<"ext", "ext", "curl", "curl">>]

PalmFourShape == [thumb |-> FALSE, fingers |-> <<"ext", "ext", "ext", "ext">>]

NoHand == <<>>

\* Mean luma of the frames, in percent.
Luma == 50

(***************************************************************************)
(* The lock step under any interleaving of short and long frame gaps, with *)
(* a fist ("yes") or a V ("help") in either slot, or no hand.  While the   *)
(* calibration window is open the next frame comes when it has elapsed.    *)
(***************************************************************************)
LockInputs ==
  { <<NoHand, NoHand>>,
    <<Hand(FistShape, 5000, 5000), NoHand>>,
    <<Hand(VeeShape, 5000, 5000), NoHand>>,
    <<NoHand, Hand(VeeShape, 5000, 5000)>> }

LockGaps == IF isCalibrating THEN {CALIBRATION_MS} ELSE {200, 1000}

LockFrame ==
  \E in \in LockInputs, dt \in LockGaps :
    /\ now + dt <= MaxNow
    /\ Frame(in[1], in[2], Luma, dt)
    /\ ObserveLocks
    /\ UNCHANGED <<script, solo, view, table, legacy>>

NextLock == StartCamera \/ LockUiTimeout \/ LockFrame

SpecLock == Init /\ [][NextLock]_vars

(***************************************************************************)
(* Scripted feeds: the candidate streams of the debounce and suppression   *)
(* scenarios, delivered in slot 0 under any interleaving of frame gaps.    *)
(* "A" is a fist ("yes"), "B" a V ("help"), "-" a frame without a hand.    *)
(***************************************************************************)
RECURSIVE Rep(_, _)
Rep(e, n) == IF n = 0 THEN <<>> ELSE <<e>> \o Rep(e, n - 1)

FeedA10 == Rep("A", LOCK_FRAMES)

FeedB10 == Rep("B", LOCK_FRAMES)

FeedA9NullA10 == Rep("A", LOCK_FRAMES - 1) \o <<"-">> \o Rep("A", LOCK_FRAMES)

FeedA10A10 == Rep("A", LOCK_FRAMES) \o Rep("A", LOCK_FRAMES)

FeedA10B10A10 == Rep("A", LOCK_FRAMES) \o Rep("B", LOCK_FRAMES) \o Rep("A", LOCK_FRAMES)

Feeds == {FeedA10, FeedB10, FeedA9NullA10, FeedA10A10, FeedA10B10A10}

FeedHand(e) ==
  IF e = "A" THEN Hand(FistShape, 5000, 5000)
  ELSE IF e = "B" THEN Hand(VeeShape, 5000, 5000)
  ELSE NoHand

FeedGesture(e) == IF e = "A" THEN "yes" ELSE IF e = "B" THEN "help" ELSE NoGesture

FeedGaps == IF isCalibrating THEN {CALIBRATION_MS} ELSE {200, 700}

ObserveFeed ==
  /\ feed' = Tail(feed)
  /\ fed' = Append(fed, Head(feed))
  /\ fedAt' = IF (Len(fed) + 1) % LOCK_FRAMES = 0 THEN Append(fedAt, DateNow(now')) ELSE fedAt
  /\ lockLog' = IF frame'.phrase # NoGesture
                THEN Append(lockLog, [g |-> frame'.phrase, frame |-> Len(fed) + 1])
                ELSE lockLog

FeedFrame ==
  \E dt \in FeedGaps :
    /\ feed # <<>>
    /\ Frame(FeedHand(Head(feed)), NoHand, Luma, dt)
    /\ ObserveLocks
    /\ ObserveFeed
    /\ UNCHANGED <<solo, view, table, legacy>>

InitFeed == InitProg /\ feed \in Feeds

NextFeed == StartCamera \/ LockUiTimeout \/ FeedFrame

SpecFeed == InitFeed /\ [][NextFeed]_vars

(***************************************************************************)
(* Two hands in view: an open four-finger palm in slot 0 that stays within *)
(* 100 units, or a fist, and a second palm far to the right in slot 1.     *)
(***************************************************************************)
HandsSlot0 ==
  { NoHand, Hand(PalmFourShape, 3000, 3000), Hand(PalmFourShape, 3100, 3000),
    Hand(FistShape, 3000, 3000) }

HandsSlot1 == { NoHand, Hand(PalmFourShape, 7000, 3000) }

HandsGaps == IF isCalibrating THEN {CALIBRATION_MS} ELSE {200, 600}

HandsFrame ==
  \E lm0 \in HandsSlot0, lm1 \in HandsSlot1, dt \in HandsGaps :
    /\ now + dt <= MaxHandsNow
    /\ Frame(lm0, lm1, Luma, dt)
    /\ ObserveSolo(lm0)
    /\ UNCHANGED <<hist, script, view, table, legacy>>

\* No lock is reached within MaxHandsNow, so no lock indicator timeout is pending.
NextHands == StartCamera \/ HandsFrame

SpecHands == Init /\ [][NextHands]_vars

(***************************************************************************)
(* A waving hand: a four-finger palm in slot 0 whose wrist jumps between   *)
(* three x positions (300, 700 and 1000 units apart, the hand size being   *)
(* 1000), or a fist, frames 100 or 200 ms apart.                           *)
(***************************************************************************)
MaxWaveNow == 4100

WaveInputs ==
  { Hand(PalmFourShape, 4000, 3000), Hand(PalmFourShape, 4300, 3000),
    Hand(PalmFourShape, 5000, 3000), Hand(FistShape, 4000, 3000) }

WaveGaps == IF isCalibrating THEN {CALIBRATION_MS} ELSE {100, 200}

\* The wrist of slot 0 against the frame before: -1, 0 or 1, a move counting
\* when it is wider than 0.12 of the scale reference.
Heading(lm0, hs) ==
  IF view.lm0 = <<>> THEN 0
  ELSE IF 25 * (At(lm0, 0).x - At(view.lm0, 0).x) > 3 * hs THEN 1
  ELSE IF 25 * (At(lm0, 0).x - At(view.lm0, 0).x) < 0 - 3 * hs THEN -1
  ELSE 0

ObserveWaveStep(lm0, h, fired) ==
  view' = [view EXCEPT
             !.lm0 = lm0,
             !.goodbyeAt = IF fired THEN Append(@, now') ELSE @,
             !.swingsAtGoodbye =
               IF fired
               THEN Append(@, view.swings + (IF h # 0 /\ view.heading # 0 /\ h # view.heading THEN 1 ELSE 0))
               ELSE @,
             !.swings = IF fired THEN 0
                        ELSE IF h # 0 /\ view.heading # 0 /\ h # view.heading THEN @ + 1 ELSE @,
             !.heading = IF fired THEN 0 ELSE IF h # 0 THEN h ELSE @]

ObserveWave(lm0) ==
  ObserveWaveStep(lm0,
    Heading(lm0, ScaleRef(getHandSize(lm0), calibrationRef'.baselineHandSize)),
    frame'.g0 = "goodbye")

WaveFrame ==
  \E lm0 \in WaveInputs, dt \in WaveGaps :
    /\ now + dt <= MaxWaveNow
    /\ Frame(lm0, NoHand, Luma, dt)
    /\ ObserveWave(lm0)
    /\ UNCHANGED <<hist, script, solo, table, legacy>>

\* A lock comes no earlier than the 10th frame, so the timeout of its
\* indicator falls after MaxWaveNow.
NextWave == StartCamera \/ WaveFrame

SpecWave == Init /\ [][NextWave]_vars

(***************************************************************************)
(* Sessions: the camera is stopped and started again between frames that   *)
(* show a fist, a four-finger palm or no hand.                             *)
(***************************************************************************)
MaxSessionNow == 7000

SessionInputs ==
  { NoHand, Hand(FistShape, 5000, 5000), Hand(PalmFourShape, 5000, 5000) }

SessionGaps == IF isCalibrating THEN {CALIBRATION_MS} ELSE {200}

SessionFrame ==
  \E lm0 \in SessionInputs, dt \in SessionGaps :
    /\ now + dt <= MaxSessionNow
    /\ Frame(lm0, NoHand, Luma, dt)
    /\ ObserveLocks
    /\ UNCHANGED <<script, solo, view, table, legacy>>

NextSession == StartCamera \/ StopCamera \/ LockUiTimeout \/ SessionFrame

SpecSession == Init /\ [][NextSession]_vars

(***************************************************************************)
(* Motion and held-pose streams at display refresh rate (frames 50 or 100  *)
(* ms apart): a four-finger palm waving between two x positions ("L",      *)
(* "R"), held still in the upper-middle zone ("S") or held still in the    *)
(* lower-middle zone ("P").                                                *)
(***************************************************************************)
PulseFrames == 24

RECURSIVE Swing(_)
Swing(n) == IF n = 0 THEN <<>> ELSE <<"L", "R">> \o Swing(n - 1)

PulseWave == Swing(PulseFrames \div 2)

PulseStop == Rep("S", PulseFrames)

PulsePlease == Rep("P", PulseFrames)

PulseFeeds == {PulseWave, PulseStop, PulsePlease}

PulseHand(e) ==
  IF e = "L" THEN Hand(PalmFourShape, 4000, 3000)
  ELSE IF e = "R" THEN Hand(PalmFourShape, 5000, 3000)
  ELSE IF e = "S" THEN Hand(PalmFourShape, 5000, 3000)
  ELSE Hand(PalmFourShape, 5000, 6000)

\* The gesture the stream is made for.
PulseGesture(q) ==
  IF q = PulseWave THEN "goodbye" ELSE IF q = PulseStop THEN "stop" ELSE "please"

PulseGaps == IF isCalibrating THEN {CALIBRATION_MS} ELSE {50, 100}

PulseFrame ==
  \E dt \in PulseGaps :
    /\ feed # <<>>
    /\ Frame(PulseHand(Head(feed)), NoHand, Luma, dt)
    /\ ObserveLocks
    /\ ObserveFeed
    /\ UNCHANGED <<solo, view, table, legacy>>

InitPulse == InitProg /\ feed \in PulseFeeds

NextPulse == StartCamera \/ LockUiTimeout \/ PulseFrame

SpecPulse == InitPulse /\ [][NextPulse]_vars

(***************************************************************************)
(* Two hands side by side: fists (or a V) low or high in the frame, the    *)
(* wrists 400 or 1000 units apart, the hand size being 1000.               *)
(***************************************************************************)
MaxPairNow == 6000

PairSlot0 ==
  { NoHand, Hand(FistShape, 5000, 6000), Hand(FistShape, 5000, 5000),
    Hand(VeeShape, 5000, 6000) }

PairSlot1 ==
  { NoHand, Hand(FistShape, 5400, 6000), Hand(FistShape, 5400, 5000),
    Hand(FistShape, 6000, 6000) }

PairGaps == IF isCalibrating THEN {CALIBRATION_MS} ELSE {200}

\* The detector's result of the frame and the scale reference of the combiner.
ObservePair(lm0, lm1) ==
  view' = [view EXCEPT
             !.lm0 = lm0,
             !.lm1 = lm1,
             !.hsPair = IF Has(lm0, 0) /\ Has(lm1, 0)
                        THEN <<ScaleRef(Max2(getHandSize(lm0), getHandSize(lm1)),
                                        calibrationRef'.baselineHandSize)>>
                        ELSE <<>>]

PairFrame ==
  \E lm0 \in PairSlot0, lm1 \in PairSlot1, dt \in PairGaps :
    /\ now + dt <= MaxPairNow
    /\ Frame(lm0, lm1, Luma, dt)
    /\ ObserveLocks
    /\ ObservePair(lm0, lm1)
    /\ UNCHANGED <<script, solo, table, legacy>>

NextPair == StartCamera \/ LockUiTimeout \/ PairFrame

SpecPair == Init /\ [][NextPair]_vars

(***************************************************************************)
(* classifyGesture on its own: one hand of every shape the templates give  *)
(* (thumb tucked in, spread out, pointing down or extended close beside    *)
(* the index finger; every finger straight, curled or half bent), with     *)
(* the wrist at (0.5, 0.3), classified on fresh trackers.                  *)
(***************************************************************************)
ThumbPoses == {"in", "out", "down", "close"}

FingerStates == {"ext", "curl", "mid"}

ThumbPose(wx, wy, pose) ==
  IF pose = "in" THEN Thumb(wx, wy, FALSE)
  ELSE IF pose = "out" THEN Thumb(wx, wy, TRUE)
  ELSE IF pose = "down"
  THEN << Pt(wx - 200, wy), Pt(wx - 300, wy + 100), Pt(wx - 400, wy + 450),
          Pt(wx - 450, wy + 800) >>
  ELSE << Pt(wx - 150, wy - 150), Pt(wx - 200, wy - 300), Pt(wx - 250, wy - 600),
          Pt(wx - 300, wy - 900) >>

TableHand(pose, fingers, wx, wy) ==
  <<Pt(wx, wy)>> \o ThumbPose(wx, wy, pose)
    \o Finger(wx, wy, 1, fingers[1]) \o Finger(wx, wy, 2, fingers[2])
    \o Finger(wx, wy, 3, fingers[3]) \o Finger(wx, wy, 4, fingers[4])

TableHands ==
  { TableHand(pose, fingers, 5000, 3000) :
      pose \in ThumbPoses, fingers \in [1..4 -> FingerStates] }

\* performance.now() of the first call.
TableNow == 1000

\* The second call comes 100 or 700 ms after the first.
TableGaps == {100, 700}

\* baselineHandSize: no hand was sampled, or hands of the templates' size.
TableBaselines == {0, 1000}

\* The second of two calls 'gap' ms apart.
TableSecond(lm, baseline, gap, r) ==
  table' = [done |-> TRUE, kind |-> "static", hand |-> lm, baseline |-> baseline,
            g |-> r.g,
            g2 |-> classifyGesture(lm, r.wave, r.still, baseline, TableNow + gap).g]

\* Two classifyGesture calls on the same hand.
TableStatic ==
  \E lm \in TableHands, baseline \in TableBaselines, gap \in TableGaps :
    /\ ~table.done
    /\ TableSecond(lm, baseline, gap,
                   classifyGesture(lm, WaveInit, StillInit, baseline, TableNow))
    /\ UNCHANGED <<prog, hist, script, solo, view, legacy>>

\* Lengths of a landmark list cut short: the first n of the 21 points.
TableLens == {5, 8, 9, 12, 13, 17, 20}

\* classifyGesture on a list that lacks its last points.
TableTruncated ==
  \E lm \in TableHands, n \in TableLens :
    /\ ~table.done
    /\ table' = [done |-> TRUE, kind |-> "truncated", hand |-> SubSeq(lm, 1, n),
                 g |-> classifyGesture(SubSeq(lm, 1, n), WaveInit, StillInit, 0, TableNow).g]
    /\ UNCHANGED <<prog, hist, script, solo, view, legacy>>

\* Scale factors f = num/den in [0.5, 2.0].
TableFactors == { <<1, 2>>, <<3, 2>>, <<2, 1>> }

\* Every landmark moved to wrist + f * (landmark - wrist).
ScaleHand(lm, num, den) ==
  [i \in 1..Len(lm) |->
     Pt(lm[1].x + ((lm[i].x - lm[1].x) * num) \div den,
        lm[1].y + ((lm[i].y - lm[1].y) * num) \div den)]

\* classifyGesture on a hand and on the same hand scaled about its wrist,
\* under the same calibration baseline.
TableScaled ==
  \E lm \in TableHands, baseline \in TableBaselines, f \in TableFactors :
    /\ ~table.done
    /\ table' = [done |-> TRUE, kind |-> "scaled", hand |-> lm, baseline |-> baseline,
                 num |-> f[1], den |-> f[2],
                 g |-> classifyGesture(lm, WaveInit, StillInit, baseline, TableNow).g,
                 gScaled |-> classifyGesture(ScaleHand(lm, f[1], f[2]), WaveInit, StillInit,
                                             baseline, TableNow).g]
    /\ UNCHANGED <<prog, hist, script, solo, view, legacy>>

NextTable == TableStatic \/ TableTruncated \/ TableScaled

SpecTable == Init /\ [][NextTable]_vars

(***************************************************************************)
(* The calibration window sampled over several frames, 1000 or 1500 ms     *)
(* apart: no hand, a fist of size 1000, the same fist twice as large, both *)
(* together, or a degenerate hand whose 21 landmarks coincide (size 0).    *)
(***************************************************************************)
MaxCalibNow == 5000

\* A detector glitch: every landmark at the wrist.
FlatHand(wx, wy) == [i \in 1..21 |-> Pt(wx, wy)]

CalibInputs ==
  { <<NoHand, NoHand>>,
    <<Hand(FistShape, 5000, 5000), NoHand>>,
    <<ScaleHand(Hand(FistShape, 5000, 5000), 2, 1), NoHand>>,
    <<Hand(FistShape, 3000, 5000), ScaleHand(Hand(FistShape, 7000, 5000), 2, 1)>>,
    <<FlatHand(5000, 5000), NoHand>>,
    <<FlatHand(5000, 5000), FlatHand(5200, 5000)>> }

CalibGaps == {1000, 1500}

\* The hand sizes of the calibration frames that show a hand, and the scale
\* references of the frame.
ObserveCalib(lm0, lm1) ==
  view' = [view EXCEPT
             !.lm0 = lm0,
             !.lm1 = lm1,
             !.hs0 = IF lm0 # <<>>
                     THEN <<ScaleRef(getHandSize(lm0), calibrationRef'.baselineHandSize)>>
                     ELSE <<>>,
             !.hsPair = IF Has(lm0, 0) /\ Has(lm1, 0)
                        THEN <<ScaleRef(Max2(getHandSize(lm0), getHandSize(lm1)),
                                        calibrationRef'.baselineHandSize)>>
                        ELSE <<>>,
             !.handSum = IF isCalibrating /\ (lm0 # <<>> \/ lm1 # <<>>)
                         THEN @ + Max2(IF lm0 # <<>> THEN getHandSize(lm0) ELSE 0,
                                       IF lm1 # <<>> THEN getHandSize(lm1) ELSE 0)
                         ELSE @,
             !.handFrames = IF isCalibrating /\ (lm0 # <<>> \/ lm1 # <<>>) THEN @ + 1 ELSE @]

CalibFrame ==
  \E in \in CalibInputs, dt \in CalibGaps :
    /\ now + dt <= MaxCalibNow
    /\ Frame(in[1], in[2], Luma, dt)
    /\ ObserveCalib(in[1], in[2])
    /\ UNCHANGED <<hist, script, solo, table, legacy>>

\* No lock is reached within MaxCalibNow, so no lock indicator timeout is pending.
NextCalib == StartCamera \/ CalibFrame

SpecCalib == Init /\ [][NextCalib]_vars

(***************************************************************************)
(* SpecPalms: palms, fists and an unrecognised shape in both slots, for    *)
(* the whole table of the two-hand combiner.                               *)
(***************************************************************************)
MaxPalmsNow == 3800

OpenShape == [thumb |-> TRUE, fingers |-> <<"ext", "ext", "ext", "ext">>]

LooseShape == [thumb |-> FALSE, fingers |-> <<"mid", "mid", "mid", "mid">>]

PalmsSlot0 ==
  { NoHand, Hand(OpenShape, 5000, 6000), Hand(PalmFourShape, 5000, 6000),
    Hand(FistShape, 5000, 6000), Hand(LooseShape, 5000, 6000) }

PalmsSlot1 ==
  { NoHand, Hand(OpenShape, 5400, 6000), Hand(PalmFourShape, 5400, 6000),
    Hand(FistShape, 5400, 6000), Hand(PalmFourShape, 6500, 6000),
    Hand(LooseShape, 5400, 6000) }

PalmsGaps == IF isCalibrating THEN {CALIBRATION_MS} ELSE {400}

PalmsFrame ==
  \E lm0 \in PalmsSlot0, lm1 \in PalmsSlot1, dt \in PalmsGaps :
    /\ now + dt <= MaxPalmsNow
    /\ Frame(lm0, lm1, Luma, dt)
    /\ ObserveLocks
    /\ ObservePair(lm0, lm1)
    /\ UNCHANGED <<script, solo, table, legacy>>

\* No lock happens within MaxPalmsNow, so the lock display's timeout never runs.
NextPalms == StartCamera \/ PalmsFrame

SpecPalms == Init /\ [][NextPalms]_vars

(***************************************************************************)
(* SpecHold: one hand that holds a palm in the stop zone, in the chest     *)
(* zone or outside both, shows a fist, loses landmarks or leaves the view. *)
(***************************************************************************)
MaxHoldNow == 4300

HoldInputs ==
  { NoHand, SubSeq(Hand(PalmFourShape, 5000, 3000), 1, 3),
    Hand(PalmFourShape, 5000, 3000), Hand(PalmFourShape, 5000, 6000),
    Hand(PalmFourShape, 2000, 3000), Hand(FistShape, 5000, 3000) }

HoldGaps == IF isCalibrating THEN {CALIBRATION_MS} ELSE {200, 500}

\* The four fingers of the hand are extended (palmFour of classifyGesture).
ShowsPalmFour(lm, hs) ==
  /\ Has(lm, 0) /\ Has(lm, 2) /\ Has(lm, 4)
  /\ isFingerExtended(lm, 5, 6, 8, hs) /\ isFingerExtended(lm, 9, 10, 12, hs)
  /\ isFingerExtended(lm, 13, 14, 16, hs) /\ isFingerExtended(lm, 17, 18, 20, hs)

\* The hand shows openHand or fourFingers of classifyGesture.
ShowsHeldShape(lm, hs) ==
  /\ ShowsPalmFour(lm, hs)
  /\ \/ ~isThumbExtended(lm, hs)
     \/ ~Has(lm, 5)
     \/ 25 * dist(At(lm, 4), At(lm, 5)) > 12 * hs

\* The wrist moved 0.012 or more on an axis between two frames.
WristMoved(prev, lm) ==
  \/ Abs(At(lm, 0).x - At(prev, 0).x) >= 120
  \/ Abs(At(lm, 0).y - At(prev, 0).y) >= 120

\* The latest frame on which the hand was not seen holding still: it was not
\* detected, showed no held shape, or had moved since the frame before; and
\* what classifyGesture returned on the frame before, with the time since.
ObserveHold(lm0) ==
  view' = [view EXCEPT
             !.lm0 = lm0,
             !.prevG0 = frame.g0,
             !.gap = now' - now,
             !.breakAt =
               IF \/ ~ShowsHeldShape(lm0, ScaleRef(getHandSize(lm0), calibrationRef'.baselineHandSize))
                  \/ (Has(view.lm0, 0) /\ WristMoved(view.lm0, lm0))
               THEN now' ELSE @]

HoldFrame ==
  \E lm0 \in HoldInputs, dt \in HoldGaps :
    /\ now + dt <= MaxHoldNow
    /\ Frame(lm0, NoHand, Luma, dt)
    /\ ObserveHold(lm0)
    /\ UNCHANGED <<hist, script, solo, table, legacy>>

\* A lock comes no earlier than the 10th frame, so the timeout of its
\* indicator falls after MaxHoldNow.
NextHold == StartCamera \/ HoldFrame

SpecHold == Init /\ [][NextHold]_vars

(***************************************************************************)
(* SpecStale: SpecCalib with the animation frame that was scheduled by the *)
(* finalizing run of predict coming before the effect is re-run.           *)
(***************************************************************************)
MaxStaleSamples == 5

\* The next animation frame, about 1/60 s later.
StaleGaps == {16}

StaleCalibFrame ==
  \E in \in CalibInputs, dt \in StaleGaps :
    /\ now + dt <= MaxCalibNow
    /\ calibrationRef.samples < MaxStaleSamples
    /\ StaleFrame(in[1], in[2], Luma, dt)
    /\ ObserveCalib(in[1], in[2])
    /\ UNCHANGED <<hist, script, solo, table, legacy>>

NextStale == StartCamera \/ CalibFrame \/ StaleCalibFrame

SpecStale == Init /\ [][NextStale]_vars

(***************************************************************************)
(* components/HandTracker.tsx: the single-hand pipeline with its majority  *)
(* vote.  Its classifyGesture is a function of the landmarks and of        *)
(* trackers of its own; the vote sees only its result, which is the input  *)
(* here: "none" when no hand is detected, NoGesture when the hand is not   *)
(* recognised, a gesture otherwise.                                        *)
(***************************************************************************)
LEGACY_WINDOW == 8

LEGACY_VOTES == 5

LEGACY_COOLDOWN_MS == 2500

LEGACY_SPEAK_COOLDOWN_MS == 3000

MaxLegacyNow == 4800

\* recent.push(g); if (recent.length > 8) recent.shift()
LegacyPush(recent, g) ==
  IF Len(recent) + 1 > LEGACY_WINDOW THEN Tail(Append(recent, g)) ELSE Append(recent, g)

LegacyCount(recent, g) == Cardinality({i \in 1..Len(recent) : recent[i] = g})

\* The scan of the Map's entries, in the order the gestures first occur in
\* recent: the entry kept is the first of the highest count.
RECURSIVE LegacyBestFrom(_, _, _)
LegacyBestFrom(recent, i, best) ==
  IF i > Len(recent) THEN best
  ELSE IF (\A j \in 1..(i - 1) : recent[j] # recent[i])
            /\ LegacyCount(recent, recent[i]) > best.count
  THEN LegacyBestFrom(recent, i + 1, [g |-> recent[i], count |-> LegacyCount(recent, recent[i])])
  ELSE LegacyBestFrom(recent, i + 1, best)

LegacyBest(recent) == LegacyBestFrom(recent, 1, [g |-> NoGesture, count |-> 0])

\* LegacyEmits with any gesture of the buffer taken as the winner.
LegacyEmitsPlurality(best, spokenTime, spokenGesture, t) ==
  /\ best.g # NoGesture
  /\ DateNow(t) - spokenTime >= LEGACY_COOLDOWN_MS
  /\ spokenGesture # best.g

\* if (best && bestCount >= 5) { ... if (cooldownOk && lastSpokenGestureRef.current !== best)
LegacyEmits(best, spokenTime, spokenGesture, t) ==
  /\ best.g # NoGesture /\ best.count >= LEGACY_VOTES
  /\ DateNow(t) - spokenTime >= LEGACY_COOLDOWN_MS
  /\ spokenGesture # best.g

\* speak(): dropped within 3000 ms of the last speech that was not dropped.
LegacySpeakPasses(spokenTime, t) == ~(DateNow(t) - spokenTime < LEGACY_SPEAK_COOLDOWN_MS)

LegacyVote(seen, recent, best, t) ==
  legacy' =
    IF LegacyEmits(best, legacy.lastSpokenTime, legacy.lastSpokenGestureRef, t)
    THEN [recentGesturesRef |-> recent,
          lastSpokenGestureRef |-> best.g,
          lastSpokenTime |-> IF LegacySpeakPasses(legacy.lastSpokenTime, t)
                             THEN DateNow(t) ELSE legacy.lastSpokenTime,
          seen |-> seen, emitted |-> best.g,
          spoken |-> LegacySpeakPasses(legacy.lastSpokenTime, t)]
    ELSE [legacy EXCEPT !.recentGesturesRef = recent, !.seen = seen,
                        !.emitted = NoGesture, !.spoken = FALSE]

\* One run of predict of components/HandTracker.tsx.
LegacyPredict(seen, dt) ==
  /\ now' = now + dt
  /\ IF seen \in {"none", NoGesture}
     THEN legacy' = [legacy EXCEPT !.seen = seen, !.emitted = NoGesture, !.spoken = FALSE]
     ELSE LegacyVote(seen, LegacyPush(legacy.recentGesturesRef, seen),
                     LegacyBest(LegacyPush(legacy.recentGesturesRef, seen)), now + dt)
  /\ UNCHANGED <<isCameraActive, isCalibrating, calibrationRef, waveRef, stillRef, lockStateRef,
                 lastSpokenTime, lastSpokenGestureRef, lockedGestureRef, lockedGesture,
                 lockUiTimeoutRef, frame, staleRaf>>
  /\ UNCHANGED <<hist, script, solo, view, table>>

LegacyResults == {"none", NoGesture, "yes", "help"}

LegacyGaps == {300}

LegacyFrame ==
  \E seen \in LegacyResults, dt \in LegacyGaps :
    /\ now + dt <= MaxLegacyNow
    /\ LegacyPredict(seen, dt)

NextLegacy == LegacyFrame

SpecLegacy == Init /\ [][NextLegacy]_vars

(***************************************************************************)
(* SpecFinger: isFingerExtended and isFingerCurled on one finger whose PIP *)
(* and tip are anywhere on a grid around the knuckle, for several scale    *)
(* references.                                                             *)
(***************************************************************************)
\* Offsets from the wrist; the knuckle is at (0, -1000).
FingerGrid == {Pt(ox, oy) : ox \in {0, 200, 600}, oy \in {-1800, -1400, -1350, -1000, -600}}

FingerScales == {0, 500, 1000, 2000}

\* A hand whose index finger has its PIP at offset p and its tip at offset t.
FingerHand(p, t) ==
  [i \in 1..21 |->
     IF i = 6 THEN Pt(5000, 4000)
     ELSE IF i = 7 THEN Pt(5000 + p.x, 5000 + p.y)
     ELSE IF i = 9 THEN Pt(5000 + t.x, 5000 + t.y)
     ELSE Pt(5000, 5000)]

TableFinger ==
  \E p \in FingerGrid, t \in FingerGrid, hs \in FingerScales :
    /\ ~table.done
    /\ table' = [done |-> TRUE, kind |-> "finger", hand |-> FingerHand(p, t), hs |-> hs,
                 extended |-> isFingerExtended(FingerHand(p, t), 5, 6, 8, hs),
                 curled |-> isFingerCurled(FingerHand(p, t), 5, 6, 8, hs)]
    /\ UNCHANGED <<prog, hist, script, solo, view, legacy>>

NextFinger == TableFinger

SpecFinger == Init /\ [][NextFinger]_vars

(***************************************************************************)
(* Properties of the lock step (SpecLock).                                 *)
(***************************************************************************)
\* C1: a lock event (onPhrase call) for gesture G is emitted on a frame only
\* if that frame and the 9 frames before it all had candidate G: never while
\* the run of identical candidates is shorter than LOCK_FRAMES.
LockOnlyAfterFullStreak ==
  frame.phrase # NoGesture =>
    /\ frame.phrase = frame.candidate
    /\ runLen >= LOCK_FRAMES

\* A lock was emitted on the latest frame.
LockEmitted == frame.phrase # NoGesture /\ runLen = LOCK_FRAMES

\* C4: two lock events in a row never carry the same gesture.
NoRepeatedLock == prevLock.g # NoGesture => lastLock.g # prevLock.g

\* Two locks were emitted and the gesture of the latest one is still held
\* for a full streak with the cooldown of predict passed: only the
\* comparison with the last locked gesture keeps the lock back.
HeldGestureSuppressed ==
  /\ prevLock.g # NoGesture
  /\ frame.candidate = lastLock.g
  /\ lockStateRef.streak >= LOCK_FRAMES
  /\ DateNow(now) - lastSpokenTime >= COOLDOWN_MS
  /\ frame.phrase = NoGesture

\* C6: any two emitted lock events are at least COOLDOWN_MS apart.
LocksCooldownApart == prevLock.g # NoGesture => lastLock.t - prevLock.t >= COOLDOWN_MS

\* C7: every lock event reported through onPhrase is also spoken.
EveryLockSpoken == frame.phrase # NoGesture => frame.spoken

\* C8: on a frame where a gesture other than the last locked one has a full
\* streak, a lock is emitted exactly when COOLDOWN_MS have passed since the
\* last lock event: not before, and on the first such frame.
CooldownDefersLock ==
  [][ ( /\ now' # now
        /\ frame'.candidate # NoGesture
        /\ runLen' >= LOCK_FRAMES
        /\ frame'.candidate # lastLock.g )
      => ( frame'.phrase # NoGesture <=> DateNow(now') - lastLock.t >= COOLDOWN_MS ) ]_vars

(***************************************************************************)
(* Properties of the scripted feeds (SpecFeed).                            *)
(***************************************************************************)
AllSame(q) == \A i \in 1..Len(q) : q[i] = q[1]

IsPrefix(q, r) == Len(q) <= Len(r) /\ \A i \in 1..Len(q) : q[i] = r[i]

\* C2: from a fresh session, 10 consecutive frames with the same candidate
\* emit exactly one lock event, for that gesture, on the 10th frame.
TenFramesLockOnce ==
  (fed # <<>> /\ Len(fed) <= LOCK_FRAMES /\ AllSame(fed) /\ fed[1] # "-") =>
    lockLog = IF Len(fed) = LOCK_FRAMES
              THEN <<[g |-> FeedGesture(fed[1]), frame |-> LOCK_FRAMES]>>
              ELSE <<>>

TenFramesFed == fed = FeedA10 /\ lockLog # <<>>

\* C3 as stated: 9 frames of A, a frame without candidate, then 10 frames of
\* A emit no lock event at all.
NullBreakNoLockAtAll == fed = FeedA9NullA10 => lockLog = <<>>

\* C3 amended: on that feed no lock event is emitted during the first 19
\* frames and exactly one, for A, on the 20th frame (the 10th consecutive
\* frame of A after the frame without candidate).
NullBreakRestartsStreak ==
  IsPrefix(fed, FeedA9NullA10) =>
    lockLog = IF Len(fed) = Len(FeedA9NullA10)
              THEN <<[g |-> "yes", frame |-> Len(FeedA9NullA10)]>>
              ELSE <<>>

NullBreakFed == fed = FeedA9NullA10 /\ lockLog # <<>>

\* C5: 10 frames of A, 10 of B, 10 of A, with the cooldown elapsed between
\* the streaks, emit exactly three lock events, A, B, A.
ABALocksThrice ==
  ( /\ fed = FeedA10B10A10
    /\ fedAt[2] - fedAt[1] >= COOLDOWN_MS
    /\ fedAt[3] - fedAt[2] >= COOLDOWN_MS ) =>
    lockLog = << [g |-> "yes", frame |-> LOCK_FRAMES],
                 [g |-> "help", frame |-> 2 * LOCK_FRAMES],
                 [g |-> "yes", frame |-> 3 * LOCK_FRAMES] >>

\* The feed A, B, A was delivered with each streak ending COOLDOWN_MS or
\* more after the one before, the second less than the cooldown of speak
\* after the first.
ABAFed ==
  /\ fed = FeedA10B10A10
  /\ fedAt[2] - fedAt[1] >= COOLDOWN_MS
  /\ fedAt[2] - fedAt[1] < SPEAK_COOLDOWN_MS
  /\ fedAt[3] - fedAt[2] >= COOLDOWN_MS
  /\ Len(lockLog) = 3

\* C18: the locked indicator is a pulse: on a frame that shows a hand more
\* than LOCK_UI_MS after the most recent lock event, the timeout of that
\* lock having run, the skeleton is drawn blue, not green.
LockedPulseEnds ==
  ( /\ lastLock.g # NoGesture
    /\ DateNow(now) - lastLock.t > LOCK_UI_MS
    /\ lockUiTimeoutRef = <<>>
    /\ frame.g0 # NoGesture )
  => ~DrawnLocked

(***************************************************************************)
(* Properties of the trackers with two hands in view (SpecHands).          *)
(***************************************************************************)
\* C9: the classification of hand slot 0 is the same whatever is presented
\* in hand slot 1: it equals what trackers of its own would give.
SlotZeroIsolated == frame.g0 = solo.g0

\* C10: while the wrist x of a hand stays within a range narrower than
\* 0.56 * scaleRef, the classifier never returns goodbye for that hand.
WaveNeedsAmplitude ==
  (solo.hs > 0 /\ 25 * (solo.hi - solo.lo) < 14 * solo.hs) => frame.g0 # "goodbye"

(***************************************************************************)
(* Properties of the wave detector (SpecWave).                             *)
(***************************************************************************)
\* C11: on the frame goodbye is returned the wave window is left reset (no
\* flips, no direction, min/max x cleared, window start = now); any two
\* goodbyes are more than 450 ms apart and the wrist has reversed at least
\* 3 times between them.
WaveOncePerWindow ==
  /\ frame.g0 = "goodbye" =>
        waveRef = [lastX |-> <<At(view.lm0, 0).x>>, lastDir |-> 0, flips |-> 0,
                   startMs |-> now, minX |-> 10000, maxX |-> 0]
  /\ \A i \in 2..Len(view.goodbyeAt) : view.goodbyeAt[i] - view.goodbyeAt[i - 1] > 450
  /\ \A i \in 1..Len(view.swingsAtGoodbye) : view.swingsAtGoodbye[i] >= 3

\* Goodbye was returned a second time.
WavedTwice == Len(view.goodbyeAt) >= 2 /\ frame.g0 = "goodbye"

(***************************************************************************)
(* Properties of the session reset (SpecSession).                          *)
(***************************************************************************)
\* C12: when the camera is started, calibration state, wave state, stillness
\* state and lock state (candidate, streak, last locked gesture, last lock
\* timestamp) all have their initial values, the calibration window
\* starting now.
SessionResetComplete ==
  [][ (~isCameraActive /\ isCameraActive') =>
        /\ calibrationRef' = [CalibrationInit EXCEPT !.startedAt = now']
        /\ waveRef' = WaveInit
        /\ stillRef' = StillInit
        /\ lockStateRef' = [candidate |-> NoGesture, streak |-> 0]
        /\ lastSpokenGestureRef' = NoGesture
        /\ lastSpokenTime' = 0 ]_vars

(***************************************************************************)
(* Properties of the streams at refresh rate (SpecPulse).                  *)
(***************************************************************************)
\* C13: goodbye, stop and one-hand please can be locked: once the stream of
\* the waving palm, of the palm held still in the upper-middle zone or of
\* the palm held still in the lower-middle zone has been delivered at
\* refresh rate, a lock event carrying its gesture has been emitted.
PulseStreamsLock ==
  (feed = <<>> /\ fed \in PulseFeeds) =>
    \E i \in 1..Len(lockLog) : lockLog[i].g = PulseGesture(fed)

(***************************************************************************)
(* Properties of the two-hand combiner (SpecPair).                         *)
(***************************************************************************)
\* C14: on a frame where both hands are classified yes, the wrists are
\* closer than 0.55 * scaleRef (scaleRef = max of both hand sizes, the
\* baseline and epsilon) and both wrists have y > 0.55, the candidate is
\* restroom.
TwoFistsRestroom ==
  ( /\ view.lm0 # <<>> /\ view.lm1 # <<>>
    /\ frame.g0 = "yes" /\ frame.g1 = "yes"
    /\ 20 * dist(At(view.lm0, 0), At(view.lm1, 0))
         < 11 * Max2(Max2(Max2(getHandSize(view.lm0), getHandSize(view.lm1)),
                          calibrationRef.baselineHandSize), EPSILON)
    /\ At(view.lm0, 0).y > 5500 /\ At(view.lm1, 0).y > 5500 )
  => frame.candidate = "restroom"

\* Two low fists close together were in view and restroom was locked.
TwoFistsSeen ==
  /\ view.lm0 = Hand(FistShape, 5000, 6000) /\ view.lm1 = Hand(FistShape, 5400, 6000)
  /\ frame.g0 = "yes" /\ frame.g1 = "yes"
  /\ frame.phrase = "restroom"

(***************************************************************************)
(* Properties of classifyGesture on its own (SpecTable).                   *)
(***************************************************************************)
RECURSIVE FirstMatch(_)
FirstMatch(rules) ==
  IF rules = <<>> THEN NoGesture
  ELSE IF Head(rules)[1] THEN Head(rules)[2]
  ELSE FirstMatch(Tail(rules))

\* The decision table on the booleans of a hand: <<condition, gesture>> in
\* the order water, assistance, thank_you, thumb-only (no, good_okay), help,
\* wait, yes, hello.
DecisionTable(thumb, index, middle, ring, pinky, indexCurled, middleCurled, ringCurled, pinkyCurled, spread, below) ==
  << << ~thumb /\ index /\ middle /\ ring /\ ~pinky, "water" >>,
     << thumb /\ index /\ pinky /\ (middleCurled \/ ~middle) /\ (ringCurled \/ ~ring),
        "assistance" >>,
     << ~thumb /\ index /\ middle /\ ring /\ pinky, "thank_you" >>,
     << thumb /\ ~index /\ ~middle /\ ~ring /\ ~pinky /\ below, "no" >>,
     << thumb /\ ~index /\ ~middle /\ ~ring /\ ~pinky, "good_okay" >>,
     << ~thumb /\ index /\ middle /\ ~ring /\ ~pinky, "help" >>,
     << ~thumb /\ index /\ ~middle /\ ~ring /\ ~pinky, "wait" >>,
     << /\ indexCurled /\ middleCurled /\ ringCurled /\ pinkyCurled
        /\ ~index /\ ~middle /\ ~ring /\ ~pinky, "yes" >>,
     << thumb /\ index /\ middle /\ ring /\ pinky /\ spread, "hello" >> >>

TableOf(lm, hs) ==
  DecisionTable(isThumbExtended(lm, hs),
                isFingerExtended(lm, 5, 6, 8, hs), isFingerExtended(lm, 9, 10, 12, hs),
                isFingerExtended(lm, 13, 14, 16, hs), isFingerExtended(lm, 17, 18, 20, hs),
                isFingerCurled(lm, 5, 6, 8, hs), isFingerCurled(lm, 9, 10, 12, hs),
                isFingerCurled(lm, 13, 14, 16, hs), isFingerCurled(lm, 17, 18, 20, hs),
                25 * dist(At(lm, 4), At(lm, 5)) > 12 * hs,
                25 * At(lm, 4).y > 25 * Max2(At(lm, 2).y, At(lm, 0).y) + 6 * hs)

Detected == {"goodbye", "stop", "please"}

\* C15: on a call where neither the wave detector nor the held-pose
\* detector fires, classifyGesture returns the first matching rule of the
\* decision table, null when none matches; thumb not extended with index
\* and middle extended and ring and pinky not extended gives help.
StaticTableInOrder ==
  (table.done /\ table.kind = "static") =>
    /\ table.g \notin Detected =>
          table.g = FirstMatch(TableOf(table.hand,
                      Max2(Max2(getHandSize(table.hand), table.baseline), EPSILON)))
    /\ table.g2 \notin Detected =>
          table.g2 = FirstMatch(TableOf(table.hand,
                       Max2(Max2(getHandSize(table.hand), table.baseline), EPSILON)))
    /\ ( /\ table.g \notin Detected
         /\ ~isThumbExtended(table.hand, 1000)
         /\ isFingerExtended(table.hand, 5, 6, 8, 1000)
         /\ isFingerExtended(table.hand, 9, 10, 12, 1000)
         /\ ~isFingerExtended(table.hand, 13, 14, 16, 1000)
         /\ ~isFingerExtended(table.hand, 17, 18, 20, 1000) ) => table.g = "help"

\* A thumb-only hand with curled fingers, matching both the thumb-only rule
\* and the fist rule, was classified by the earlier of the two.
ThumbOverFist ==
  /\ table.done /\ table.kind = "static"
  /\ table.hand = TableHand("out", [k \in 1..4 |-> "curl"], 5000, 3000)
  /\ table.g = "good_okay"

\* C16: a landmark list with fewer than 21 entries is classified null.
MissingLandmarksNull ==
  (table.done /\ table.kind = "truncated") => table.g = NoGesture

\* C17: a hand classified G by the static rules is classified G again when
\* every landmark is scaled about the wrist by a factor in [0.5, 2.0], the
\* classifier's scale reference max(handSize, baseline, epsilon) scaling
\* with the landmarks.
ScaleInvariant ==
  (table.done /\ table.kind = "scaled") => table.gScaled = table.g

(***************************************************************************)
(* Properties of the calibration (SpecCalib).                              *)
(***************************************************************************)
\* C19: at finalize, baselineHandSize is the mean of max(handSize(hand0),
\* handSize(hand1)) over exactly the calibration frames that showed a hand;
\* frames without a hand change neither the sum nor the count.
BaselineMeanOfHandFrames ==
  calibrationRef.isReady =>
    calibrationRef.baselineHandSize =
      IF view.handFrames = 0 THEN 0 ELSE view.handSum \div view.handFrames

\* C20: the scale reference of classifyGesture and of the combiner is the
\* largest of the current hand size, the baseline and EPSILON, and so never
\* below EPSILON.
ScaleRefNeverZero ==
  /\ view.hs0 # <<>> =>
        /\ view.hs0[1] >= EPSILON
        /\ view.hs0[1] >= getHandSize(view.lm0)
        /\ view.hs0[1] >= calibrationRef.baselineHandSize
        /\ view.hs0[1] \in {getHandSize(view.lm0), calibrationRef.baselineHandSize, EPSILON}
  /\ view.hsPair # <<>> =>
        /\ view.hsPair[1] >= EPSILON
        /\ view.hsPair[1] >= getHandSize(view.lm0)
        /\ view.hsPair[1] >= getHandSize(view.lm1)
        /\ view.hsPair[1] >= calibrationRef.baselineHandSize

\* The calibration window closed without a hand sample (baseline 0, ready)
\* and a frame shows two hands of size 0: both scale references are EPSILON.
ZeroScaleFloored ==
  /\ calibrationRef.isReady /\ calibrationRef.baselineHandSize = 0
  /\ view.lm0 = FlatHand(5000, 5000) /\ view.lm1 = FlatHand(5200, 5000)
  /\ view.hs0 = <<EPSILON>> /\ view.hsPair = <<EPSILON>>

(***************************************************************************)
(* Streak bookkeeping, read off the delivered script (SpecFeed).           *)
(***************************************************************************)
\* The number of trailing entries of q that equal its last entry.
RECURSIVE TrailingRun(_)
TrailingRun(q) ==
  IF Len(q) <= 1 THEN Len(q)
  ELSE IF q[Len(q)] = q[Len(q) - 1] THEN 1 + TrailingRun(SubSeq(q, 1, Len(q) - 1))
  ELSE 1

\* C21: after every processed frame the streak equals the number of trailing
\* consecutive frames whose candidate equals the current candidate when that
\* candidate is not null, and the streak is 0 exactly when the candidate of
\* the frame is null.
StreakIsTrailingRun ==
  fed # <<>> =>
    /\ frame.candidate = FeedGesture(fed[Len(fed)])
    /\ lockStateRef.candidate = frame.candidate
    /\ frame.candidate # NoGesture => lockStateRef.streak = TrailingRun(fed)
    /\ lockStateRef.streak = 0 <=> frame.candidate = NoGesture

\* C21 witness: nine fists, a frame without a hand, then a fist again: the
\* count restarts at 1.
StreakRestarted ==
  /\ Len(fed) = LOCK_FRAMES + 1
  /\ fed[LOCK_FRAMES] = "-"
  /\ frame.candidate = "yes"
  /\ lockStateRef.streak = 1

(***************************************************************************)
(* The two-hand combiner (SpecPalms).                                      *)
(***************************************************************************)
Palmish == {"hello", "thank_you", "please"}

\* Both wrists are in view and closer than 0.55 of the scale reference.
WristsClose ==
  /\ Has(view.lm0, 0) /\ Has(view.lm1, 0)
  /\ 20 * dist(At(view.lm0, 0), At(view.lm1, 0))
       < 11 * Max2(Max2(Max2(getHandSize(view.lm0), getHandSize(view.lm1)),
                        calibrationRef.baselineHandSize), EPSILON)

WristsLow == At(view.lm0, 0).y > 5500 /\ At(view.lm1, 0).y > 5500

\* C22: the frame's candidate is restroom when both wrists are present,
\* close and low and both hands are yes; otherwise please when both wrists
\* are present and close and both hands are among hello, thank_you, please;
\* otherwise the first hand's gesture if it has one, otherwise the second
\* hand's; and it is null only when both hands' gestures are null.
CombinerTable ==
  /\ frame.candidate =
       IF WristsClose /\ WristsLow /\ frame.g0 = "yes" /\ frame.g1 = "yes"
       THEN "restroom"
       ELSE IF WristsClose /\ frame.g0 \in Palmish /\ frame.g1 \in Palmish
       THEN "please"
       ELSE IF frame.g0 # NoGesture THEN frame.g0
       ELSE frame.g1
  /\ frame.candidate = NoGesture <=> (frame.g0 = NoGesture /\ frame.g1 = NoGesture)

\* C22 witness: hello beside thank_you merged into please, although neither
\* hand shows please.
PalmsMerged ==
  /\ WristsClose
  /\ frame.g0 = "hello" /\ frame.g1 = "thank_you"
  /\ frame.candidate = "please"

(***************************************************************************)
(* Properties of the wave and stillness trackers between frames (SpecHold).*)
(***************************************************************************)
\* C23: after every frame on which the hand does not show the four-fingers-
\* extended shape (another shape, required landmarks missing, or no hand
\* detected), the wave tracker is in its empty state.
WaveEmptyWhenShapeAbsent ==
  ( /\ isCameraActive /\ ~isCalibrating
    /\ ~ShowsPalmFour(view.lm0, ScaleRef(getHandSize(view.lm0), calibrationRef.baselineHandSize)) )
  => waveRef = WaveInit

\* C24: the accumulated stillness is at most the time elapsed since the
\* latest frame on which the hand showed no held shape, was not detected, or
\* had moved by 0.012 or more; so stop or please from stillness is returned
\* only after more than 650 ms of stillness observed without interruption.
StillnessObserved ==
  /\ stillRef.stillMs <= now - view.breakAt
  /\ frame.g0 \in {"stop", "please"} => now - view.breakAt > 650

\* The stillness the tracker st has accumulated once the frame at time t,
\* with the wrist at w, is counted.
StillnessWith(st, w, t) ==
  IF (st.lastX # <<>> /\ Abs(w.x - st.lastX[1]) >= 120)
       \/ (st.lastY # <<>> /\ Abs(w.y - st.lastY[1]) >= 120)
  THEN 0
  ELSE st.stillMs + (IF st.lastMs = 0 THEN 0 ELSE t - st.lastMs)

InStopZone(w) == w.x > 2500 /\ w.x < 7500 /\ w.y < 4500

InChestZone(w) == w.x > 3000 /\ w.x < 7000 /\ w.y > 4500

HeldPoseTable(g, w, acc, stillAfter) ==
  /\ g = "stop" <=> (InStopZone(w) /\ acc > 650)
  /\ g = "please" <=>
       /\ ~(InStopZone(w) /\ acc > 650)
       /\ (InChestZone(w) /\ acc > 650) \/ acc > 1100
  /\ g \in {"stop", "please"} => stillAfter = 0

\* C25: on a frame with an open-hand or four-finger shape on which goodbye
\* is not returned, stop is returned iff the wrist is in the stop zone and
\* the accumulated stillness of the frame exceeds 650 ms; otherwise please
\* is returned iff the wrist is in the chest zone with stillness over 650 ms
\* or the stillness exceeds 1100 ms anywhere; the accumulated stillness is 0
\* after a frame that returned stop or please.
HeldPoseDecision ==
  [][ ( /\ now' # now
        /\ ShowsHeldShape(view'.lm0, ScaleRef(getHandSize(view'.lm0), calibrationRef'.baselineHandSize))
        /\ frame'.g0 # "goodbye" )
      => HeldPoseTable(frame'.g0, At(view'.lm0, 0),
                       StillnessWith(stillRef, At(view'.lm0, 0), now'),
                       stillRef'.stillMs) ]_vars

\* C25 witness: a palm held outside both zones returned please, which takes
\* more than 1100 ms of stillness there, and the stillness is back at 0.
HeldOutsideZones ==
  /\ frame.g0 = "please"
  /\ view.lm0 = Hand(PalmFourShape, 2000, 3000)
  /\ stillRef.stillMs = 0

(***************************************************************************)
(* Calibration end (SpecStale).                                            *)
(***************************************************************************)
\* C26: within one camera start the calibration finalizes at most once; once
\* it is ready, later frames change neither its baseline and brightness nor
\* its sample count and sums, and complete it (and notify) no second time,
\* also when a frame callback scheduled before the finalize runs after it.
CalibrationFinalOnce ==
  [][ (isCameraActive /\ calibrationRef.isReady) => calibrationRef' = calibrationRef ]_vars

(***************************************************************************)
(* The majority vote of components/HandTracker.tsx (SpecLegacy).           *)
(***************************************************************************)
\* C27: the buffer of recent gestures never holds more than 8 entries; a
\* phrase is emitted for gesture G only on a frame where G has at least 5
\* entries in the buffer, G differs from the last emitted gesture and at
\* least 2500 ms have passed since the last speech; a null classification
\* and a frame without a hand neither enter nor clear the buffer.
LegacyMajorityVote ==
  [][ /\ Len(legacy'.recentGesturesRef) <= 8
      /\ legacy'.emitted # NoGesture =>
           /\ LegacyCount(legacy'.recentGesturesRef, legacy'.emitted) >= 5
           /\ legacy'.emitted # legacy.lastSpokenGestureRef
           /\ (TimeOrigin + now') - legacy.lastSpokenTime >= 2500
      /\ legacy'.seen \in {"none", NoGesture} =>
           legacy'.recentGesturesRef = legacy.recentGesturesRef ]_vars

\* C27 witness: help is emitted with 5 entries in a full buffer that also
\* holds yes, the gesture emitted before.
LegacyOutvoted ==
  /\ legacy.emitted = "help"
  /\ Len(legacy.recentGesturesRef) = 8
  /\ LegacyCount(legacy.recentGesturesRef, "help") = 5
  /\ LegacyCount(legacy.recentGesturesRef, "yes") = 3

\* C28: for one hand with frames less than 450 ms apart, goodbye is never
\* returned on two consecutive frames and stop or please is never returned on
\* two consecutive frames, so the candidate stream of a single hand never
\* holds 10 consecutive goodbye, stop or please frames.
SingleFramePulses ==
  /\ (view.gap < 450 /\ view.prevG0 = "goodbye") => frame.g0 # "goodbye"
  /\ (view.gap < 450 /\ view.prevG0 \in {"stop", "please"}) => frame.g0 \notin {"stop", "please"}
  /\ lockStateRef.candidate \in {"goodbye", "stop", "please"} => lockStateRef.streak < LOCK_FRAMES

\* C28 witness: the palm that had just returned stop stays where it is and the
\* frame 200 ms later returns thank_you.
PulseThenStatic ==
  /\ view.prevG0 = "stop" /\ view.gap = 200
  /\ view.lm0 = Hand(PalmFourShape, 5000, 3000)
  /\ frame.g0 = "thank_you"

(***************************************************************************)
(* Properties of the finger predicates (SpecFinger).                       *)
(***************************************************************************)
\* C29: isFingerExtended and isFingerCurled are never both true of the same
\* finger, so 'curled or not extended' is the same as 'not extended' and
\* 'curled' implies 'not extended'.
ExtendedCurledExclusive ==
  (table.done /\ table.kind = "finger") =>
    /\ ~(table.extended /\ table.curled)
    /\ (table.curled \/ ~table.extended) <=> ~table.extended
    /\ table.curled => ~table.extended

\* C29 witness: a finger bent sideways, its tip nearer to the knuckle than
\* its PIP but farther from the wrist, is extended and not curled.
BentSideways ==
  /\ table.done /\ table.kind = "finger"
  /\ table.hand = FingerHand(Pt(600, -1000), Pt(200, -1350))
  /\ table.hs = 1000
  /\ table.extended /\ ~table.curled

(***************************************************************************)
(* Overlap of the static rules (SpecTable).                                *)
(***************************************************************************)
\* The conditions of the static rules on the booleans of a hand, in the
\* order water, assistance, thank_you, thumb-only, help, wait, yes, hello.
RuleConditions(thumb, index, middle, ring, pinky, indexCurled, middleCurled, ringCurled, pinkyCurled, spread) ==
  << ~thumb /\ index /\ middle /\ ring /\ ~pinky,
     thumb /\ index /\ pinky /\ (middleCurled \/ ~middle) /\ (ringCurled \/ ~ring),
     ~thumb /\ index /\ middle /\ ring /\ pinky,
     thumb /\ ~index /\ ~middle /\ ~ring /\ ~pinky,
     ~thumb /\ index /\ middle /\ ~ring /\ ~pinky,
     ~thumb /\ index /\ ~middle /\ ~ring /\ ~pinky,
     /\ indexCurled /\ middleCurled /\ ringCurled /\ pinkyCurled
     /\ ~index /\ ~middle /\ ~ring /\ ~pinky,
     thumb /\ index /\ middle /\ ring /\ pinky /\ spread >>

RulesOf(lm, hs) ==
  RuleConditions(isThumbExtended(lm, hs),
                 isFingerExtended(lm, 5, 6, 8, hs), isFingerExtended(lm, 9, 10, 12, hs),
                 isFingerExtended(lm, 13, 14, 16, hs), isFingerExtended(lm, 17, 18, 20, hs),
                 isFingerCurled(lm, 5, 6, 8, hs), isFingerCurled(lm, 9, 10, 12, hs),
                 isFingerCurled(lm, 13, 14, 16, hs), isFingerCurled(lm, 17, 18, 20, hs),
                 25 * dist(At(lm, 4), At(lm, 5)) > 12 * hs)

RulesDisjoint(rules, g) ==
  /\ \A i, j \in 1..Len(rules) : (i < j /\ rules[i] /\ rules[j]) => (i = 4 /\ j = 7)
  /\ (rules[4] /\ rules[7]) => g \in {"good_okay", "no"}
  /\ ~(rules[2] /\ rules[3])

\* C30: over the booleans of every hand the conditions of the static rules
\* are pairwise disjoint except thumb-only and yes; a fist with the thumb
\* extended is classified good_okay or no, never yes; no shape satisfies
\* both assistance and thank_you.
StaticRulesDisjoint ==
  (table.done /\ table.kind = "static") =>
    RulesDisjoint(RulesOf(table.hand, Max2(Max2(getHandSize(table.hand), table.baseline), EPSILON)),
                  table.g)

\* C30 witness: a fist with the thumb pointing down satisfies the thumb-only
\* rule and the fist rule and is classified no.
ThumbDownFist ==
  /\ table.done /\ table.kind = "static"
  /\ table.hand = TableHand("down", [k \in 1..4 |-> "curl"], 5000, 3000)
  /\ RulesOf(table.hand, Max2(Max2(getHandSize(table.hand), table.baseline), EPSILON))[4]
  /\ RulesOf(table.hand, Max2(Max2(getHandSize(table.hand), table.baseline), EPSILON))[7]
  /\ table.g = "no"

====
